---- MODULE Spec2Model ----
(***************************************************************************)
(* Model of Backend/spellcheckfunc.c: the word store (load_dictionary,     *)
(* cleanup), the membership test (is_word_correct), the suggestion scan    *)
(* (get_suggestions, sort_suggestions) and the edit distance               *)
(* (damerau_levenshtein_distance).                                         *)
(*                                                                         *)
(* A C string is a sequence of character codes (unsigned char values, no   *)
(* NUL inside).  A text file is a sequence of lines, each the bytes before *)
(* its terminating '\n'; a line may hold any byte but '\n', a NUL          *)
(* included, and the buffer fgets fills is read as the C string that ends  *)
(* at its first NUL.                                                       *)
(***************************************************************************)
EXTENDS Integers, Sequences, FiniteSets, TLC

\* ------------------------------------------------------------ #defines
MAX_WORD_LEN == 50
MAX_LINE_LEN == 256
DICTIONARY_SIZE == 375000
MAX_TEMP_SUGGESTIONS == 1000

\* the range of int: INT_MIN .. INT_MAX
INT_MAX == 2147483647
INT_MIN == -INT_MAX - 1

\* ------------------------------------------------------------ libc
\* strlen
strlen(s) == Len(s)

\* tolower((unsigned char)c) in the C locale
tolower(c) == IF c >= 65 /\ c <= 90 THEN c + 32 ELSE c

\* the loop  for (i = 0; s[i]; i++) s[i] = tolower(s[i]);
lowercase(s) == [i \in 1..Len(s) |-> tolower(s[i])] \o <<>>

\* the least element of a non-empty set of integers
least(S) == CHOOSE x \in S : \A y \in S : x <= y

\* strcspn(s, "\n\r") on the bytes s of a buffer: length of the prefix holding
\* neither '\n' nor '\r'; the scan ends at the first NUL, where the C string
\* in the buffer ends
strcspn_eol(s) ==
    LET hits == {i \in 1..Len(s) : s[i] \in {0, 10, 13}}
    IN  IF hits = {} THEN Len(s) ELSE least(hits) - 1

\* strncpy(dst, src, n); dst[n] = '\0': the first n characters of src
strncpy(src, n) == IF Len(src) <= n THEN src ELSE SubSeq(src, 1, n)

\* strcmp: only the sign of the result is used (-1, 0, 1); the strings are
\* compared as unsigned char up to the first difference or the end of one
strcmp(s1, s2) ==
    LET n    == IF Len(s1) < Len(s2) THEN Len(s1) ELSE Len(s2)
        diff == {i \in 1..n : s1[i] # s2[i]}
    IN  IF s1 = s2 THEN 0
        ELSE IF diff # {}
        THEN (IF s1[least(diff)] < s2[least(diff)] THEN -1 ELSE 1)
        ELSE IF Len(s1) < Len(s2) THEN -1
        ELSE IF Len(s1) > Len(s2) THEN 1
        ELSE 0

\* fmin on int arguments, converted back to int
fmin(x, y) == IF x < y THEN x ELSE y

\* abs
abs(x) == IF x < 0 THEN -x ELSE x

\* ------------------------------------------------------------ edit distance
\* dp is the table built so far, a sequence of rows: dp[i+1][j+1] is the
\* C dp[i][j].  C's s1[i-1] is s1[i] here.

\* faulty variant: the transposition case left out: plain Levenshtein
dl_transposition_left_out(s1, s2, i, j) == FALSE

\* the transposition test of the inner loop body
dl_transposition(s1, s2, i, j) ==
    i > 1 /\ j > 1 /\ s1[i] = s2[j - 1] /\ s1[i - 1] = s2[j]

\* one execution of the inner loop body: the value stored in dp[i][j];
\* row holds dp[i][0 .. j-1]
dl_cell(s1, s2, i, j, dp, row) ==
    LET cost == IF s1[i] = s2[j] THEN 0 ELSE 1
        lev  == fmin(dp[i][j + 1] + 1,
                     fmin(row[j] + 1,
                          dp[i][j] + cost))
    IN  IF dl_transposition(s1, s2, i, j)
        THEN fmin(lev, dp[i - 1][j - 1] + 1)
        ELSE lev

\* iterations lo..hi, in order, of the inner loop
\*   for (j = 1; j <= len2; j++)
\* (the range is halved and the first half finished before the second starts,
\* so that the evaluation stays shallow; after iteration j the row holds
\* j + 1 cells)
RECURSIVE dl_row(_, _, _, _, _, _, _)
dl_row(s1, s2, i, lo, hi, dp, row) ==
    IF lo > hi THEN row
    ELSE IF lo = hi THEN Append(row, dl_cell(s1, s2, i, lo, dp, row))
    ELSE LET mid  == (lo + hi) \div 2
             done == dl_row(s1, s2, i, lo, mid, dp, row)
         IN  IF Len(done) > mid THEN dl_row(s1, s2, i, mid + 1, hi, dp, done) ELSE done

\* iterations lo..hi, in order, of the outer loop
\*   for (i = 1; i <= len1; i++)
\* dp[i][0] = i starts each row
RECURSIVE dl_fill(_, _, _, _, _)
dl_fill(s1, s2, lo, hi, dp) ==
    IF lo > hi THEN dp
    ELSE IF lo = hi THEN Append(dp, dl_row(s1, s2, lo, 1, Len(s2), dp, <<lo>>))
    ELSE LET mid  == (lo + hi) \div 2
             done == dl_fill(s1, s2, lo, mid, dp)
         IN  IF Len(done) > mid THEN dl_fill(s1, s2, mid + 1, hi, done) ELSE done

\* alloc_ok: whether every malloc of the call succeeds
damerau_levenshtein_distance(s1, s2, alloc_ok) ==
    LET len1 == strlen(s1)
        len2 == strlen(s2)
    IN  IF len1 = 0 THEN len2
        ELSE IF len2 = 0 THEN len1
        ELSE IF ~alloc_ok THEN -1
        ELSE LET row0 == [j \in 1..(len2 + 1) |-> j - 1] \o <<>>
                 dp   == dl_fill(s1, s2, 1, len1, <<row0>>)
             IN  dp[len1 + 1][len2 + 1]

\* ------------------------------------------------------------ word store
\* The globals dictionary, dictionary_count, dictionary_capacity are held in a
\* record st: st.is_null stands for dictionary == NULL, st.dictionary holds
\* the words dictionary[0 .. dictionary_count-1] (the rest of the block is
\* never read).

\* cleanup(): the state it leaves
cleanup(st) ==
    [is_null |-> TRUE, dictionary |-> <<>>, count |-> 0, capacity |-> 0]

\* fgets(line, sizeof(line), file), called until the text line text_line and
\* its '\n' are consumed: the bytes the k-th call puts in the buffer
fgets(text_line, k) ==
    LET bytes == Append(text_line, 10)
        first == (MAX_LINE_LEN - 1) * (k - 1) + 1
        last  == fmin((MAX_LINE_LEN - 1) * k, Len(bytes))
    IN  SubSeq(bytes, first, last)

\* the number of fgets calls that consume text_line and its '\n'
fgets_calls(text_line) ==
    (Len(text_line) + 1 + (MAX_LINE_LEN - 2)) \div (MAX_LINE_LEN - 1)

\* line[strcspn(line, "\n\r")] = 0; then the tolower loop: the C string left
\* in the buffer line
load_normalize(line) ==
    lowercase(SubSeq(line, 1, strcspn_eol(line)))

\* The while loop of load_dictionary.  Its state s: ret = 0 once the function
\* has returned failure; count, capacity: dictionary_count and
\* dictionary_capacity; added: the words stored by the iterations run so far
\* in the range being evaluated, dictionary[count - Len(added) .. count - 1].

\* faulty variant: dictionary_count = 0 left out after realloc failed
load_failed_count_kept ==
    [ret |-> 0, count |-> DICTIONARY_SIZE, capacity |-> 0, added |-> <<>>]

\* the state after realloc failed: free, NULL, 0, 0, return 0
load_failed == [ret |-> 0, count |-> 0, capacity |-> 0, added |-> <<>>]

\* the body of the while loop for one buffer read by fgets.
\* realloc_ok: whether realloc succeeds.
load_line(s, buffer, realloc_ok) ==
    LET line == load_normalize(buffer)
    IN  IF s.ret = 0 THEN s
        ELSE IF ~(strlen(line) < MAX_WORD_LEN) THEN s
        ELSE IF s.count >= s.capacity /\ ~realloc_ok THEN load_failed
        ELSE [ret      |-> s.ret,
              count    |-> s.count + 1,
              capacity |-> IF s.count >= s.capacity THEN s.capacity * 2
                           ELSE s.capacity,
              added    |-> Append(s.added, strncpy(line, MAX_WORD_LEN - 1))]

\* the while loop over the buffers k .. fgets_calls of one text line
RECURSIVE load_text_line(_, _, _, _)
load_text_line(s, text_line, k, realloc_ok) ==
    IF k > fgets_calls(text_line) \/ s.ret = 0 THEN s
    ELSE load_text_line(load_line(s, fgets(text_line, k), realloc_ok),
                        text_line, k + 1, realloc_ok)

\* the while loop over the text lines lo .. hi of the file, in order.  The
\* range is halved: the second half starts from the count and capacity the
\* first half left, and the words the two halves stored are joined.
RECURSIVE load_loop(_, _, _, _, _)
load_loop(s, file, lo, hi, realloc_ok) ==
    IF lo > hi \/ s.ret = 0 THEN s
    ELSE IF lo = hi THEN load_text_line(s, file[lo], 1, realloc_ok)
    ELSE LET mid    == (lo + hi) \div 2
             first  == load_loop(s, file, lo, mid, realloc_ok)
             second == load_loop([first EXCEPT !.added = <<>>],
                                 file, mid + 1, hi, realloc_ok)
         IN  IF first.ret = 0 THEN first
             ELSE IF second.ret = 0 THEN second
             ELSE [second EXCEPT !.added = first.added \o second.added]

\* load_dictionary(filename): the globals it leaves and the value it returns.
\* fopen_ok: fopen succeeds, and file is then the content; malloc_ok,
\* realloc_ok: the allocations succeed.
load_dictionary(st, file, fopen_ok, malloc_ok, realloc_ok) ==
    LET c == cleanup(st)
        s == load_loop([ret |-> 1, count |-> 0, capacity |-> DICTIONARY_SIZE,
                        added |-> <<>>],
                       file, 1, Len(file), realloc_ok)
    IN  IF ~fopen_ok THEN c @@ [ret |-> 0]
        ELSE IF ~malloc_ok
        THEN [is_null |-> TRUE, dictionary |-> <<>>, count |-> c.count,
              capacity |-> DICTIONARY_SIZE, ret |-> 0]
        ELSE [is_null |-> s.ret = 0, dictionary |-> s.added, count |-> s.count,
              capacity |-> s.capacity, ret |-> s.ret]

\* ------------------------------------------------------------ queries
\* strncpy(lower_word, word, MAX_WORD_LEN - 1); lower_word[MAX_WORD_LEN - 1] = 0;
\* then the tolower loop
query_normalize(word) == lowercase(strncpy(word, MAX_WORD_LEN - 1))

\* iterations lo .. hi of the scan of is_word_correct; found = TRUE once the
\* loop has returned 1
RECURSIVE word_scan(_, _, _, _, _)
word_scan(found, st, lower_word, lo, hi) ==
    IF lo > hi \/ found THEN found
    ELSE IF lo = hi THEN strcmp(lower_word, st.dictionary[lo]) = 0
    ELSE LET mid == (lo + hi) \div 2
         IN  word_scan(word_scan(found, st, lower_word, lo, mid),
                       st, lower_word, mid + 1, hi)

is_word_correct(st, word) ==
    IF st.is_null \/ st.count = 0 THEN 0
    ELSE IF word_scan(FALSE, st, query_normalize(word), 1, st.count) THEN 1
    ELSE 0

\* ------------------------------------------------------------ ranking
\* faulty variant: the order by distance alone, ties left as they are
sort_before_no_tie_break(x, y) == x.dist < y.dist

\* the test of the inner loop of sort_suggestions: entry x goes before entry y
sort_before(x, y) ==
    x.dist < y.dist \/ (x.dist = y.dist /\ strcmp(x.word, y.word) < 0)

\* the body of the inner loop: compare slots i and j (1-based), swap if needed
sort_step(suggestions, i, j) ==
    IF sort_before(suggestions[j], suggestions[i])
    THEN [suggestions EXCEPT ![i] = suggestions[j], ![j] = suggestions[i]]
    ELSE suggestions

\* iterations lo .. hi, in order, of the inner loop
\*   for (j = i + 1; j < count; j++)
\* (the range is halved and the first half finished before the second starts)
RECURSIVE sort_inner(_, _, _, _)
sort_inner(suggestions, i, lo, hi) ==
    IF lo > hi THEN suggestions
    ELSE IF lo = hi THEN sort_step(suggestions, i, lo)
    ELSE LET mid  == (lo + hi) \div 2
             done == sort_inner(suggestions, i, lo, mid)
         IN  IF Len(done) = Len(suggestions)
             THEN sort_inner(done, i, mid + 1, hi) ELSE done

\* iterations lo .. hi, in order, of the outer loop
\*   for (i = 0; i < count - 1; i++)
RECURSIVE sort_outer(_, _, _, _)
sort_outer(suggestions, count, lo, hi) ==
    IF lo > hi THEN suggestions
    ELSE IF lo = hi THEN sort_inner(suggestions, lo, lo + 1, count)
    ELSE LET mid  == (lo + hi) \div 2
             done == sort_outer(suggestions, count, lo, mid)
         IN  IF Len(done) = Len(suggestions)
             THEN sort_outer(done, count, mid + 1, hi) ELSE done

\* sort_suggestions(suggestions, count): the buffer it leaves
sort_suggestions(suggestions, count) ==
    sort_outer(suggestions, count, 1, count - 1)

\* ------------------------------------------------------------ suggestions
\* the int subtraction x - y overflows, for x >= 0: x - y > INT_MAX
sub_overflows(x, y) == y < x - INT_MAX

\* the two length filters: neither takes its continue.  When the subtraction
\* current_dict_word_len - misspelled_word_len overflows the behaviour is
\* undefined: the second filter lets the word through iff its length is in
\* ub_pass, the lengths for which the build at hand does so.
scan_length_ok(current_dict_word_len, misspelled_word_len, length_tolerance, ub_pass) ==
    /\ ~(current_dict_word_len < misspelled_word_len)
    /\ IF sub_overflows(current_dict_word_len, misspelled_word_len)
       THEN current_dict_word_len \in ub_pass
       ELSE ~(abs(current_dict_word_len - misspelled_word_len) > length_tolerance)

\* faulty variant: the test dist >= 0 left out
scan_dist_ok_unchecked(dist, tolerance) == dist <= tolerance

\* if (dist >= 0 && dist <= tolerance)
scan_dist_ok(dist, tolerance) == dist >= 0 /\ dist <= tolerance

\* faulty variant: <= for < in the test of the cap
scan_has_room_off_by_one(suggestion_count) ==
    suggestion_count <= MAX_TEMP_SUGGESTIONS

\* if (suggestion_count < MAX_TEMP_SUGGESTIONS)
scan_has_room(suggestion_count) == suggestion_count < MAX_TEMP_SUGGESTIONS

\* the body of the scan loop of get_suggestions for dictionary[i] (1-based).
\* s.suggestions: the slots of the caller's buffer written so far, slot k at
\* position k + 1; s.suggestion_count; s.stop: the break was taken;
\* s.accepted: the indices i copied into the buffer, in order (auxiliary).
\* fail_at: the indices whose distance computation cannot allocate.
scan_step(s, st, lower_word, tolerance, misspelled_word_len, length_tolerance, fail_at, ub_pass, i) ==
    LET dict_word == st.dictionary[i]
        current_dict_word_len == strlen(dict_word)
        dist == damerau_levenshtein_distance(lower_word, dict_word, i \notin fail_at)
    IN  IF s.stop THEN s
        ELSE IF ~scan_length_ok(current_dict_word_len, misspelled_word_len,
                                length_tolerance, ub_pass)
        THEN s
        ELSE IF ~scan_dist_ok(dist, tolerance) THEN s
        ELSE IF scan_has_room(s.suggestion_count)
        THEN [suggestions |->
                  Append(s.suggestions,
                         [word |-> strncpy(dict_word, MAX_WORD_LEN - 1), dist |-> dist]),
              suggestion_count |-> s.suggestion_count + 1,
              stop |-> FALSE,
              accepted |-> Append(s.accepted, i)]
        ELSE [s EXCEPT !.stop = TRUE]

\* iterations lo .. hi, in order, of the scan loop
\*   for (i = 0; i < dictionary_count; i++)
\* (the range is halved; s.stop is read before the second half starts)
RECURSIVE scan_loop(_, _, _, _, _, _, _, _, _, _)
scan_loop(s, st, lower_word, tolerance, misspelled_word_len, length_tolerance, fail_at, ub_pass, lo, hi) ==
    IF lo > hi \/ s.stop THEN s
    ELSE IF lo = hi
    THEN scan_step(s, st, lower_word, tolerance, misspelled_word_len,
                   length_tolerance, fail_at, ub_pass, lo)
    ELSE LET mid == (lo + hi) \div 2
         IN  scan_loop(scan_loop(s, st, lower_word, tolerance, misspelled_word_len,
                                 length_tolerance, fail_at, ub_pass, lo, mid),
                       st, lower_word, tolerance, misspelled_word_len,
                       length_tolerance, fail_at, ub_pass, mid + 1, hi)

\* get_suggestions up to the call of sort_suggestions: the state of the scan
get_suggestions_scan(st, word, tolerance, misspelled_word_len, length_tolerance, fail_at, ub_pass) ==
    LET s0 == [suggestions |-> <<>>, suggestion_count |-> 0, stop |-> FALSE,
               accepted |-> <<>>]
    IN  IF st.is_null \/ st.count = 0 THEN s0
        ELSE scan_loop(s0, st, query_normalize(word), tolerance,
                       misspelled_word_len, length_tolerance, fail_at, ub_pass,
                       1, st.count)

\* get_suggestions: the value returned (ret), the written slots of the
\* caller's buffer (suggestions); scanned and accepted record the buffer and
\* the accepted indices as they were before sort_suggestions ran
get_suggestions(st, word, tolerance, misspelled_word_len, length_tolerance, fail_at, ub_pass) ==
    LET s == get_suggestions_scan(st, word, tolerance, misspelled_word_len,
                                  length_tolerance, fail_at, ub_pass)
    IN  [ret         |-> s.suggestion_count,
         suggestions |-> IF st.is_null \/ st.count = 0 THEN <<>>
                         ELSE sort_suggestions(s.suggestions, s.suggestion_count),
         scanned     |-> s.suggestions,
         accepted    |-> s.accepted]

\* ------------------------------------------------------------ state
VARIABLES
    dictionary_is_null,    \* dictionary == NULL
    dictionary,            \* dictionary[0 .. dictionary_count-1], as a sequence
    dictionary_count,
    dictionary_capacity,
    last_load,             \* history: outcome and file of the last load_dictionary
    call                   \* the last call: its arguments and what it returned

vars == <<dictionary_is_null, dictionary, dictionary_count, dictionary_capacity,
          last_load, call>>

\* the globals as the record the operators above take
State ==
    [is_null |-> dictionary_is_null, dictionary |-> dictionary,
     count |-> dictionary_count, capacity |-> dictionary_capacity]

\* the globals become those of st
SetState(st) ==
    /\ dictionary_is_null' = st.is_null
    /\ dictionary' = st.dictionary
    /\ dictionary_count' = st.count
    /\ dictionary_capacity' = st.capacity

\* the initializers of the globals: NULL, 0, 0
Init ==
    /\ dictionary_is_null = TRUE
    /\ dictionary = <<>>
    /\ dictionary_count = 0
    /\ dictionary_capacity = 0
    /\ last_load = [status |-> "none"]
    /\ call = [op |-> "none"]

\* what can go wrong in a call of load_dictionary: nothing, fopen, malloc,
\* realloc
Outcomes == {"ok", "fopen", "malloc", "realloc"}

load_outcome(st, file, outcome) ==
    load_dictionary(st, file, outcome # "fopen", outcome # "malloc",
                    outcome # "realloc")

\* a call of load_dictionary has left and returned r; last_load records the
\* file of a successful call, and of a failed one the allocation that failed
\* and how many words the store held before
LoadResult(file, outcome, r) ==
    /\ SetState(r)
    /\ last_load' = IF r.ret = 1 THEN [status |-> "ok", file |-> file]
                    ELSE [status |-> "failed", outcome |-> outcome,
                          replaced |-> dictionary_count]
    /\ call' = [op |-> "load_dictionary", ret |-> r.ret]

\* a call of load_dictionary on a file of the set files
Load(files) ==
    \E file \in files, outcome \in Outcomes :
        LoadResult(file, outcome, load_outcome(State, file, outcome))

\* a call of cleanup
Cleanup ==
    /\ SetState(cleanup(State))
    /\ last_load' = IF last_load.status = "ok" THEN [status |-> "released"]
                    ELSE last_load
    /\ call' = [op |-> "cleanup"]

\* a call of is_word_correct on a word of the set words
IsWordCorrect(words) ==
    \E word \in words :
        /\ call' = [op |-> "is_word_correct", word |-> word,
                    ret |-> is_word_correct(State, word)]
        /\ UNCHANGED <<dictionary_is_null, dictionary, dictionary_count,
                       dictionary_capacity, last_load>>

\* a call of get_suggestions with <<word, tolerance, misspelled_word_len,
\* length_tolerance>> of the set params, the allocations failing at the
\* dictionary indices of a set of fails; when misspelled_word_len makes the
\* subtraction of the length filter overflow for some word length, ub_pass is
\* any of the outcomes ubs, and {} otherwise (it is not read)
GetSuggestions(params, fails, ubs) ==
    \E p \in params, fail_at \in fails :
      \E ub_pass \in (IF sub_overflows(MAX_WORD_LEN - 1, p[3]) THEN ubs ELSE {{}}) :
        /\ call' = [op |-> "get_suggestions", word |-> p[1], tolerance |-> p[2],
                    misspelled_word_len |-> p[3], length_tolerance |-> p[4],
                    fail_at |-> fail_at, ub_pass |-> ub_pass]
                   @@ get_suggestions(State, p[1], p[2], p[3], p[4], fail_at, ub_pass)
        /\ UNCHANGED <<dictionary_is_null, dictionary, dictionary_count,
                       dictionary_capacity, last_load>>

\* a call of damerau_levenshtein_distance on the arguments drawn at the start:
\* call.op = "distance_args" before the call, "distance" after it
Distance ==
    /\ call.op = "distance_args"
    /\ call' = [op |-> "distance", s1 |-> call.s1, s2 |-> call.s2,
                alloc_ok |-> call.alloc_ok,
                ret |-> damerau_levenshtein_distance(call.s1, call.s2,
                                                     call.alloc_ok)]
    /\ UNCHANGED <<dictionary_is_null, dictionary, dictionary_count,
                   dictionary_capacity, last_load>>

\* ------------------------------------------------------------ inputs
MaxLines == 3
MaxFail == 2

\* the string of n characters c
Rep(c, n) == [i \in 1..n |-> c] \o <<>>

\* the files of at most n lines, each of the set lines
FilesOf(lines, n) == UNION {{f \o <<>> : f \in [1..k -> lines]} : k \in 0..n}

\* "", "a", "Ab"
ShortLines == {<<>>, <<97>>, <<65, 98>>}

\* one-line files: "ba\ra"; "a", NUL, "b"; NUL then 60 times "a"; 49, 50 and
\* 255 times "a"; 256 times "a" then "B"
SpecialFiles ==
    { <<(<<98, 97, 13, 97>>)>>,
      <<(<<97, 0, 98>>)>>,
      <<(<<0>> \o Rep(97, MAX_WORD_LEN + 10))>>,
      <<Rep(97, MAX_WORD_LEN - 1)>>,
      <<Rep(97, MAX_WORD_LEN)>>,
      <<Rep(97, MAX_LINE_LEN - 1)>>,
      <<Rep(97, MAX_LINE_LEN) \o <<66>> >> }

Files == FilesOf(ShortLines, MaxLines) \cup SpecialFiles

\* "a", "AB", "ab\n", 50 times "a"
Queries == {<<97>>, <<65, 66>>, <<97, 98, 10>>, Rep(97, MAX_WORD_LEN)}

\* <<word, tolerance, misspelled_word_len, length_tolerance>>: "AB" and "ba"
\* with small tolerances, 50 times "a" with tolerance 48, and "" with
\* misspelled_word_len at the low end of int
Params ==
    ({<<65, 66>>, <<98, 97>>} \X {0, 1} \X {1, 2} \X {0, 1})
    \cup {<<Rep(97, MAX_WORD_LEN), MAX_WORD_LEN - 2, 1, 0>>}
    \cup {<<(<<>>), 1, INT_MIN, 0>>, <<(<<>>), 1, INT_MIN + 1, INT_MAX>>}

\* no allocation failure, one at index i, one at every index up to MaxFail
Fails == {{}} \cup {{i} : i \in 1..MaxFail} \cup {1..MaxFail}

\* outcomes of the overflowing length filter: no word passes, only the empty
\* word passes, every word passes
UbPass == {{}, {0}, 0..(MAX_WORD_LEN - 1)}

MaxStrLen == 4

\* the strings over "a", "b" of at most MaxStrLen characters, "kitten", "sitting"
DistStrings ==
    FilesOf({97, 98}, MaxStrLen)
    \cup { <<107, 105, 116, 116, 101, 110>>,
           <<115, 105, 116, 116, 105, 110, 103>> }

Next ==
    \/ Load(Files)
    \/ Cleanup
    \/ IsWordCorrect(Queries)
    \/ GetSuggestions(Params, Fails, UbPass)

Spec == Init /\ [][Next]_vars

\* A store of more entries than the caller's buffer has slots.
\* CapFile: MAX_TEMP_SUGGESTIONS + 3 lines, the second "a", the others "ab"
\* (odd lines) and "ba" (even lines)
CapFile ==
    [i \in 1..(MAX_TEMP_SUGGESTIONS + 3) |->
        IF i = 2 THEN <<97>> ELSE IF i % 2 = 0 THEN <<98, 97>> ELSE <<97, 98>>]
    \o <<>>

\* "anyway", "any", "airway"
ScenarioFile ==
    << <<97, 110, 121, 119, 97, 121>>, <<97, 110, 121>>,
       <<97, 105, 114, 119, 97, 121>> >>

\* "ab", "ba", "a"
CapLines == {<<97, 98>>, <<98, 97>>, <<97>>}

CapFiles == {ScenarioFile} \cup FilesOf(CapLines, MaxLines)

\* load_dictionary on a large file.  What it leaves for an outcome that reads
\* the file is evaluated once, from empty globals, and kept in known (what
\* load_dictionary leaves does not depend on the globals it finds: cleanup
\* overwrites them all).
Globals0 == [is_null |-> TRUE, dictionary |-> <<>>, count |-> 0, capacity |-> 0]

LoadLarge(file, known) ==
    \E outcome \in {"fopen", "malloc"} \cup DOMAIN known :
        LoadResult(file, outcome,
                   IF outcome \in DOMAIN known THEN known[outcome]
                   ELSE load_outcome(State, file, outcome))

cap_loaded ==
    [ok      |-> load_outcome(Globals0, CapFile, "ok"),
     realloc |-> load_outcome(Globals0, CapFile, "realloc")]

\* ("ab", 1, 2, 0), ("b", 1, 1, 0), ("", 1, INT_MIN + 1, INT_MAX),
\* ("nayway", 3, 6, 2)
CapParams ==
    { <<(<<97, 98>>), 1, 2, 0>>,
      <<(<<98>>), 1, 1, 0>>,
      <<(<<>>), 1, INT_MIN + 1, INT_MAX>>,
      <<(<<110, 97, 121, 119, 97, 121>>), 3, 6, 2>> }

CapFails == {{}, {1}}

\* the overflowing length filter lets every word pass
CapUbPass == {0..(MAX_WORD_LEN - 1)}

NextCap ==
    \/ Load(CapFiles)
    \/ LoadLarge(CapFile, cap_loaded)
    \/ Cleanup
    \/ GetSuggestions(CapParams, CapFails, CapUbPass)

SpecCap == Init /\ [][NextCap]_vars

\* A file of more lines than the initial capacity: DICTIONARY_SIZE + 1 times "a"
HugeFile == Rep(<<97>>, DICTIONARY_SIZE + 1)

\* the huge file is read with realloc failing when the block is full
huge_loaded == [realloc |-> load_outcome(Globals0, HugeFile, "realloc")]

\* "a", "b"
GrowLines == {<<97>>, <<98>>}

NextGrow ==
    \/ Load(FilesOf(GrowLines, MaxLines))
    \/ LoadLarge(HugeFile, huge_loaded)
    \/ Cleanup
    \/ IsWordCorrect(GrowLines)
    \/ GetSuggestions({<<(<<97>>), 0, 1, 0>>, <<(<<98>>), 1, 1, 0>>}, {{}}, {{}})

SpecGrow == Init /\ [][NextGrow]_vars

\* the edit distance alone: the arguments are drawn from DistStrings at the
\* start, alloc_ok telling whether the allocations of the table succeed
InitDistance ==
    /\ dictionary_is_null = TRUE
    /\ dictionary = <<>>
    /\ dictionary_count = 0
    /\ dictionary_capacity = 0
    /\ last_load = [status |-> "none"]
    /\ \E s1 \in DistStrings, s2 \in DistStrings, alloc_ok \in BOOLEAN :
          call = [op |-> "distance_args", s1 |-> s1, s2 |-> s2,
                  alloc_ok |-> alloc_ok]

NextDistance == Distance

SpecDistance == InitDistance /\ [][NextDistance]_vars

\* ------------------------------------------------------------ claims
\* the positions of a sequence
Indices(s) == 1..Len(s)

\* the number of positions of s holding e
Occurrences(s, e) == Cardinality({k \in Indices(s) : s[k] = e})

\* s and r hold the same entries, each as often
SameMultiset(s, r) ==
    /\ Len(s) = Len(r)
    /\ \A k \in Indices(s) : Occurrences(s, s[k]) = Occurrences(r, s[k])

\* a text line as the load rule of the specification sees it: normalized
\* whole, kept iff shorter than MAX_WORD_LEN
line_kept(line) == Len(line) < MAX_WORD_LEN
accepted_lines(file) ==
    SelectSeq([k \in Indices(file) |-> load_normalize(file[k])] \o <<>>, line_kept)

\* C1: is_word_correct returns true iff a dictionary is loaded, the store is
\* not empty and the query, normalized as a dictionary line is at load
\* (cut at CR/LF, lowercased), equals a stored word.
C1_MembershipIffNormalizedMatch ==
    call.op = "is_word_correct" =>
        ((call.ret = 1) <=>
            /\ ~dictionary_is_null
            /\ dictionary_count > 0
            /\ \E i \in 1..dictionary_count :
                   dictionary[i] = load_normalize(call.word))

\* abs(len - query_length) <= length_tolerance over the integers (a
\* difference above INT_MAX is above every length_tolerance)
length_within(len, query_length, length_tolerance) ==
    /\ ~sub_overflows(len, query_length)
    /\ abs(len - query_length) <= length_tolerance

\* C2: every returned suggestion (w, d) is a stored word with
\* d = distance(q, w), q the lowercased query as get_suggestions reads it (its
\* first MAX_WORD_LEN - 1 characters), 0 <= d <= tolerance,
\* len(w) >= query_length and abs(len(w) - query_length) <= length_tolerance.
C2_SuggestionsWithinBounds ==
    call.op = "get_suggestions" =>
        /\ Len(call.suggestions) = call.ret
        /\ \A k \in 1..call.ret :
              LET w == call.suggestions[k].word
                  d == call.suggestions[k].dist
              IN  /\ \E i \in 1..dictionary_count : dictionary[i] = w
                  /\ d = damerau_levenshtein_distance(query_normalize(call.word), w, TRUE)
                  /\ 0 <= d
                  /\ d <= call.tolerance
                  /\ Len(w) >= call.misspelled_word_len
                  /\ length_within(Len(w), call.misspelled_word_len,
                                   call.length_tolerance)

\* C3: the returned sequence is ordered by ascending distance, then ascending
\* word, and sort_suggestions only permuted the accepted entries.
C3_Ranked ==
    call.op = "get_suggestions" =>
        /\ \A i, j \in 1..call.ret :
              i < j =>
                LET x == call.suggestions[i]
                    y == call.suggestions[j]
                IN  \/ x.dist < y.dist
                    \/ x.dist = y.dist /\ strcmp(x.word, y.word) <= 0
        /\ SameMultiset(call.scanned, call.suggestions)

\* C3 witness: sort_suggestions reordered a buffer that held a tie in distance
\* between different words.
C3_Witness ==
    /\ call.op = "get_suggestions"
    /\ call.scanned # call.suggestions
    /\ \E i, j \in 1..call.ret :
          /\ call.suggestions[i].dist = call.suggestions[j].dist
          /\ call.suggestions[i].word # call.suggestions[j].word

\* C7: after a successful load of file B the store holds exactly the accepted
\* normalized lines of B, in order, and only those words are reported correct.
C7_StoreIsAcceptedLines ==
    last_load.status = "ok" =>
        /\ dictionary = accepted_lines(last_load.file)
        /\ (call.op = "is_word_correct" /\ call.ret = 1) =>
               \E k \in Indices(last_load.file) :
                   load_normalize(last_load.file[k]) = query_normalize(call.word)

\* C8: every stored word has a length in [1, MAX_WORD_LEN), and the store
\* holds no more words than the file has lines that normalize to fewer than
\* MAX_WORD_LEN characters (a longer line leaves nothing behind).
C8_StoredWordLengths ==
    /\ \A i \in 1..dictionary_count :
          1 <= Len(dictionary[i]) /\ Len(dictionary[i]) < MAX_WORD_LEN
    /\ last_load.status = "ok" =>
          dictionary_count <= Len(accepted_lines(last_load.file))

\* The restricted Damerau-Levenshtein distance by the recurrence of the
\* specification, taken top-down on the prefixes of a and b.
RECURSIVE osa(_, _)
osa(a, b) ==
    IF a = <<>> THEN Len(b)
    ELSE IF b = <<>> THEN Len(a)
    ELSE LET m    == Len(a)
             n    == Len(b)
             a1   == SubSeq(a, 1, m - 1)
             b1   == SubSeq(b, 1, n - 1)
             cost == IF a[m] = b[n] THEN 0 ELSE 1
             del  == osa(a1, b) + 1
             ins  == osa(a, b1) + 1
             sub  == osa(a1, b1) + cost
             best == IF del <= ins /\ del <= sub THEN del
                     ELSE IF ins <= sub THEN ins ELSE sub
         IN  IF m > 1 /\ n > 1 /\ a[m] = b[n - 1] /\ a[m - 1] = b[n]
             THEN LET tr == osa(SubSeq(a, 1, m - 2), SubSeq(b, 1, n - 2)) + 1
                  IN  IF tr < best THEN tr ELSE best
             ELSE best

\* C5: when no allocation fails, damerau_levenshtein_distance(a, b) is the
\* restricted Damerau-Levenshtein distance of the specification's recurrence:
\* non-negative, len(b) for empty a, len(a) for empty b, 0 for a = b, 1 for
\* ("ab", "ba"), 3 for ("kitten", "sitting"), and the same for (b, a).
C5_DistanceIsRestrictedDamerauLevenshtein ==
    (call.op = "distance" /\ (call.alloc_ok \/ call.s1 = <<>> \/ call.s2 = <<>>)) =>
        /\ call.ret = osa(call.s1, call.s2)
        /\ call.ret >= 0
        /\ call.s1 = <<>> => call.ret = Len(call.s2)
        /\ call.s2 = <<>> => call.ret = Len(call.s1)
        /\ call.s1 = call.s2 => call.ret = 0
        /\ (call.s1 = <<97, 98>> /\ call.s2 = <<98, 97>>) => call.ret = 1
        /\ (call.s1 = <<107, 105, 116, 116, 101, 110>>
              /\ call.s2 = <<115, 105, 116, 116, 105, 110, 103>>) => call.ret = 3
        /\ call.ret = damerau_levenshtein_distance(call.s2, call.s1, TRUE)

\* C5 witness: the distance of ("kitten", "sitting") was computed, and is 3.
C5_Witness ==
    /\ call.op = "distance"
    /\ call.s1 = <<107, 105, 116, 116, 101, 110>>
    /\ call.s2 = <<115, 105, 116, 116, 105, 110, 103>>
    /\ call.alloc_ok
    /\ call.ret = 3

\* the entries of a sequence
Range(s) == {s[k] : k \in Indices(s)}

\* the positions 1 .. n in order
Positions(n) == [k \in 1..n |-> k] \o <<>>

\* what the last get_suggestions call got from the distance computation for
\* dictionary[i]
scan_dist(i) ==
    damerau_levenshtein_distance(query_normalize(call.word), dictionary[i],
                                 i \notin call.fail_at)

\* dictionary[i] passed the length filters in the last get_suggestions call
scan_reached(i) ==
    scan_length_ok(Len(dictionary[i]), call.misspelled_word_len,
                   call.length_tolerance, call.ub_pass)

\* dictionary[i] qualifies for the last get_suggestions call
qualifies(i) ==
    /\ Len(dictionary[i]) >= call.misspelled_word_len
    /\ length_within(Len(dictionary[i]), call.misspelled_word_len,
                     call.length_tolerance)
    /\ 0 <= scan_dist(i)
    /\ scan_dist(i) <= call.tolerance

\* the distance computation of dictionary[i] signalled allocation failure
scan_failed(i) == scan_reached(i) /\ scan_dist(i) < 0
scan_not_failed(i) == ~scan_failed(i)

\* C4: get_suggestions returns at most MAX_TEMP_SUGGESTIONS entries and writes
\* no slot of the buffer at index MAX_TEMP_SUGGESTIONS or above.
C4_AtMostMaxTempSuggestions ==
    call.op = "get_suggestions" =>
        /\ call.ret <= MAX_TEMP_SUGGESTIONS
        /\ Len(call.scanned) <= MAX_TEMP_SUGGESTIONS
        /\ Len(call.suggestions) <= MAX_TEMP_SUGGESTIONS

\* C4 witness: the buffer was filled and a further qualifying entry of the
\* store was left out.
C4_Witness ==
    /\ call.op = "get_suggestions"
    /\ call.ret = MAX_TEMP_SUGGESTIONS
    /\ \E i \in 1..dictionary_count :
          qualifies(i) /\ i \notin Range(call.accepted)

\* C9: get_suggestions returns, ranked, exactly the first
\* min(k, MAX_TEMP_SUGGESTIONS) qualifying entries in store order, k the
\* number of qualifying entries; for the store ("anyway", "any", "airway")
\* and ("nayway", 3, 6, 2) that is "anyway" at 1, then "airway" at 3.
C9_FirstQualifyingEntries ==
    call.op = "get_suggestions" =>
        LET q     == SelectSeq(Positions(dictionary_count), qualifies)
            n     == IF Len(q) < MAX_TEMP_SUGGESTIONS THEN Len(q)
                     ELSE MAX_TEMP_SUGGESTIONS
            first == [k \in 1..n |->
                         [word |-> dictionary[q[k]], dist |-> scan_dist(q[k])]] \o <<>>
        IN  /\ call.ret = n
            /\ call.scanned = first
            /\ SameMultiset(first, call.suggestions)
            /\ (/\ dictionary = ScenarioFile
                 /\ call.word = <<110, 97, 121, 119, 97, 121>>
                 /\ call.tolerance = 3
                 /\ call.misspelled_word_len = 6
                 /\ call.length_tolerance = 2
                 /\ call.fail_at = {})
                => call.suggestions =
                       << [word |-> <<97, 110, 121, 119, 97, 121>>, dist |-> 1],
                          [word |-> <<97, 105, 114, 119, 97, 121>>, dist |-> 3] >>

\* C10 (as amended): a candidate whose distance computation signals
\* allocation failure is skipped and never returned with a negative distance,
\* and the scan goes on: the call accepts and returns what a call without
\* failure accepts and returns on the store without the failed candidates.
C10_FailedCandidatesSkipped ==
    call.op = "get_suggestions" =>
        LET kept == SelectSeq(Positions(dictionary_count), scan_not_failed)
            st   == [State EXCEPT
                        !.dictionary = [k \in 1..Len(kept) |-> dictionary[kept[k]]]
                                       \o <<>>,
                        !.count = Len(kept)]
            r    == get_suggestions(st, call.word, call.tolerance,
                                    call.misspelled_word_len,
                                    call.length_tolerance, {}, call.ub_pass)
        IN  /\ \A k \in 1..call.ret : call.suggestions[k].dist >= 0
            /\ \A i \in Range(call.accepted) : ~scan_failed(i)
            /\ call.ret = r.ret
            /\ call.suggestions = r.suggestions
            /\ call.accepted = [k \in 1..Len(r.accepted) |-> kept[r.accepted[k]]] \o <<>>

\* C10 as claimed: no failed candidate is returned, and every other candidate
\* is accepted or rejected exactly as in the call without failure.
C10_OthersAsWithoutFailure ==
    call.op = "get_suggestions" =>
        LET r == get_suggestions(State, call.word, call.tolerance,
                                 call.misspelled_word_len, call.length_tolerance,
                                 {}, call.ub_pass)
        IN  /\ \A k \in 1..call.ret : call.suggestions[k].dist >= 0
            /\ \A i \in 1..dictionary_count :
                  ~scan_failed(i) =>
                      ((i \in Range(call.accepted)) <=> (i \in Range(r.accepted)))

\* C10 witness: a candidate failed and a later candidate was accepted.
C10_Witness ==
    /\ call.op = "get_suggestions"
    /\ \E i \in 1..dictionary_count :
          /\ scan_failed(i)
          /\ \E j \in Range(call.accepted) : j > i

\* C6: after a load_dictionary call that returned failure, and until one
\* succeeds, the store is empty, is_word_correct returns false and
\* get_suggestions returns nothing.
C6_FailedLoadLeavesStoreEmpty ==
    last_load.status = "failed" =>
        /\ dictionary_count = 0
        /\ dictionary = <<>>
        /\ dictionary_is_null
        /\ call.op = "load_dictionary" => call.ret = 0
        /\ call.op = "is_word_correct" => call.ret = 0
        /\ call.op = "get_suggestions" =>
              call.ret = 0 /\ call.suggestions = <<>> /\ call.scanned = <<>>

\* C6 witness: capacity growth failed in a load that replaced a store holding
\* words, and a query after it found nothing.
C6_Witness ==
    /\ last_load.status = "failed"
    /\ last_load.outcome = "realloc"
    /\ last_load.replaced > 0
    /\ call.op = "is_word_correct"
    /\ call.ret = 0

====
